---- MODULE Spec2Model ----
(***************************************************************************)
(* Cosine Cartographer (src/src/App.jsx, component TonePhase): the         *)
(* clipping guard of the oscilloscope loop, the tap-tempo estimator, the   *)
(* phase reset, the tempo and root-frequency inputs with the frequency     *)
(* model, and the LFO modulation loop.                                     *)
(*                                                                         *)
(* Each subsystem has its own next-state relation over the one state; a    *)
(* relation leaves the variables of the other subsystems unchanged.        *)
(*                                                                         *)
(* Volumes and analyser samples are real numbers in the program.  Here     *)
(* master volume, gains, modulated volumes and samples are integers        *)
(* counted in millionths (1000000 is 1.0); a product is rounded to the     *)
(* nearest millionth.  Channel faders, LFO amounts and LFO values are      *)
(* counted in hundredths (the fader step), LFO rates in mHz, frequencies   *)
(* in 1/240 Hz, phases in degrees.  Times are milliseconds.                *)
(***************************************************************************)
EXTENDS Integers, Sequences, FiniteSets

VARIABLES
    isPlaying,         \* useState isPlaying (App.jsx:278)
    audioReady,        \* useState audioReady (App.jsx:279)
    masterVolume,      \* useState masterVolume (App.jsx:281), millionths
    drawMasterVolume,  \* the masterVolume captured by the closure of draw
    data,              \* the analyser frame read by the last draw
    pendingToggles,    \* togglePlay calls suspended at await Tone.start()
    masterMuted,       \* useState masterMuted (App.jsx:282)
    masterGain,        \* masterGainRef.current.gain, the value it is set to
    mounted,           \* the component is mounted (its effects not cleaned up)
    pendingRestores,   \* timers of resetOscillators' restore: [due, vol]
    resetFlash,        \* useState resetFlash (App.jsx:280)
    flashTimers,       \* timers of setResetFlash(false): due times
    oscPhase,          \* phase of each running oscillator, degrees
    lfoStartTime,      \* lfoStartTimeRef.current (App.jsx:293)
    disposedWrites,    \* history: writes to the master gain after dispose
    resets,            \* history: calls of resetOscillators so far
    rootFreq,          \* useState rootFreq (App.jsx:277), Hz
    frequencies,       \* calculateFrequencies() of the last render, 1/240 Hz
    volumes,           \* useState volumes (App.jsx:283), hundredths
    lfoRates,          \* useState lfoRates (App.jsx:287), mHz
    lfoAmounts,        \* useState lfoAmounts (App.jsx:288), hundredths
    muted,             \* useState muted (App.jsx:284)
    modulatedVolumes,  \* useState modulatedVolumes (App.jsx:289), millionths
    gains,             \* gainsRef.current[idx].gain.value, millionths
    edits,             \* history: channel parameter changes so far
    lfoFrameLive,      \* the frame in lfoAnimationRef.current is pending
    lfoOrphans,        \* pending LFO frames no ref holds
    drawFrameLive,     \* the frame in animationRef.current is pending
    drawOrphans,       \* pending draw frames no ref holds
    trace,             \* what the oscilloscope canvas shows
    pendingInits,      \* initAudio calls suspended at await Tone.start()
    disposed,          \* the audio nodes the teardown has disposed
    disposedUses,      \* history: disposed nodes a tick has used
    bpm,               \* useState bpm (App.jsx:276)
    tapTimes,          \* tapTimesRef.current (App.jsx:302)
    now,               \* Date.now(), ms since the session started
    tapLog,            \* history: every tap made so far, in order
    freeTaps,          \* history: taps whose interval was chosen freely
    op                 \* history: the operation that made the last step

vars == <<isPlaying, audioReady, masterVolume, drawMasterVolume, data,
          pendingToggles, masterMuted, masterGain, mounted, pendingRestores,
          resetFlash, flashTimers, oscPhase, lfoStartTime, disposedWrites,
          resets, rootFreq, frequencies, volumes, lfoRates, lfoAmounts, muted,
          modulatedVolumes, gains, edits, lfoFrameLive, lfoOrphans,
          drawFrameLive, drawOrphans, trace, pendingInits, disposed,
          disposedUses, bpm, tapTimes, now, tapLog, freeTaps, op>>

guardVars == <<isPlaying, audioReady, masterVolume, drawMasterVolume, data,
               pendingToggles>>

masterVars == <<masterMuted, masterGain>>

resetVars == <<mounted, pendingRestores, resetFlash, flashTimers, oscPhase,
               lfoStartTime, disposedWrites, resets>>

tempoVars == <<rootFreq, frequencies>>

lfoVars == <<volumes, lfoRates, lfoAmounts, muted, modulatedVolumes, gains,
             edits>>

loopVars == <<lfoFrameLive, lfoOrphans, drawFrameLive, drawOrphans>>

sessionVars == <<trace, pendingInits, disposed, disposedUses>>

tapVars == <<bpm, tapTimes, now, tapLog, freeTaps>>

----------------------------------------------------------------------------
(* Units and bounds *)

\* samples per analyser frame in the model (2048 in the program)
FrameLen == 3

\* togglePlay calls that may wait for Tone.start() at the same time
MaxPendingToggles == 2

\* taps in one run of the tap-tempo model
MaxTaps == 9

\* taps of one run, after the first, whose interval is chosen freely from
\* TapIntervals
MaxFreeTaps == 3

\* sample values an analyser frame is built from: -0.96 (clipping) and 0.95
\* (the largest magnitude that does not clip)
Samples == {-960000, 950000}

Frames == [1..FrameLen -> Samples]

\* positions of the master fader (step 0.01): 0.05, 0.1, 0.3
UserVolumes == {50000, 100000, 300000}

\* ms between two taps; 3000 and 200000 exceed the 2000 ms reset gap
TapIntervals == {0, 150, 500, 960, 1000, 2000, 3000, 200000}

----------------------------------------------------------------------------
(* Arithmetic *)

Abs(x) == IF x < 0 THEN -x ELSE x

Max(a, b) == IF a >= b THEN a ELSE b

Min(a, b) == IF a <= b THEN a ELSE b

----------------------------------------------------------------------------
(* Clipping guard: draw, App.jsx:432-449 *)

ClipThreshold == 950000

VolumeFloor == 100000

IsClippingAtThreshold(frame) ==
    \E i \in DOMAIN frame : Abs(frame[i]) >= ClipThreshold

\* for (i...) if (Math.abs(data[i]) > 0.95) { isClipping = true; break; }
IsClipping(frame) ==
    \E i \in DOMAIN frame : Abs(frame[i]) > ClipThreshold

\* prev * 0.95
Attenuate(prev) == (prev * 95 + 50) \div 100

\* prev => Math.max(0.1, prev * 0.95)
GuardUpdater(prev) == Max(VolumeFloor, Attenuate(prev))

\* if (isClipping && masterVolume > 0.1) setMasterVolume(updater): the test
\* reads the masterVolume of the render that created draw (captured), the
\* updater receives the current state (prev).
GuardedVolume(frame, captured, prev) ==
    IF IsClipping(frame) /\ captured > VolumeFloor
    THEN GuardUpdater(prev)
    ELSE prev

\* const timeScale = 3.0, in tenths
timeScale == 30

\* positions of the time scale slider of the earlier variant of the
\* program: min 0.5, max 10.0, step 0.5, in tenths
SliderTimeScales == {5 * k : k \in 1..20}

samplesToShowUncapped(len, scale) == (len * 10) \div scale

\* Math.min(Math.floor(data.length / timeScale), data.length), for a scale
\* in tenths
samplesToShow(len, scale) == Min((len * 10) \div scale, len)

\* y / height of a sample, in millionths: v = (data[i] + 1) / 2; y = v * height
SampleY(sample) == (sample + 1000000) \div 2

\* the line drawn while stopped: moveTo(0, height / 2); lineTo(width,
\* height / 2), in grey
FlatLine == [kind |-> "flat", clipping |-> FALSE, ys |-> <<500000, 500000>>]

TraceOfLastFrame(frame) ==
    [kind     |-> "wave",
     clipping |-> IsClipping(data),
     ys       |-> [i \in 1..samplesToShow(Len(data), timeScale) |->
                     SampleY(data[i])]]

\* the waveform draw strokes from a frame: red if isClipping, through the
\* first samplesToShow samples
TraceOf(frame) ==
    [kind     |-> "wave",
     clipping |-> IsClipping(frame),
     ys       |-> [i \in 1..samplesToShow(Len(frame), timeScale) |->
                     SampleY(frame[i])]]

\* the audio nodes the mount effect creates
AudioNodes == {"oscillators", "gains", "masterGain", "analyser"}

\* the disposed nodes among those a tick uses, added to the record
UsesByTick(nodes) == disposedUses \cup (nodes \cap disposed)

\* ref.current = requestAnimationFrame(callback): a frame the ref held and
\* that is still pending stays pending with no ref to it
RequestFrame(live, orphans) ==
    [live |-> TRUE, orphans |-> IF live THEN orphans + 1 ELSE orphans]

\* if (ref.current) cancelAnimationFrame(ref.current)
CancelFrame(live, orphans) == [live |-> FALSE, orphans |-> orphans]

\* a pending frame comes due and leaves the queue: the one the ref holds
\* (held) or one no ref holds
FireFrame(live, orphans, held) ==
    IF held
    THEN [live |-> FALSE, orphans |-> orphans]
    ELSE [live |-> live, orphans |-> orphans - 1]

\* the frames of a loop that can come due
PendingFrames(live, orphans) ==
    {held \in BOOLEAN : IF held THEN live ELSE orphans > 0}

\* one run of draw on the frame the analyser returns (getValue is called
\* once); the request for the next frame is made by the caller
Draw(frame, captured) ==
    /\ data' = frame
    /\ masterVolume' = GuardedVolume(frame, captured, masterVolume)
    /\ trace' = TraceOf(frame)
    /\ disposedUses' = UsesByTick({"analyser"})

----------------------------------------------------------------------------
(* Channels and the frequency model: App.jsx:304-314, 733-736 *)

\* the eight channels, idx of beatRatios.map / volumes.map
Channels == 0..7

\* const beatRatios = [0, 0.25, 0.5, 1, 2, 4, 8, 16], each ratio times 4
beatRatios == [idx \in Channels |-> <<0, 1, 2, 4, 8, 16, 32, 64>>[idx + 1]]

\* A frequency in 1/240 Hz: with beatHz = bpm / 60 and the ratio in
\* quarters, beatHz * ratio is bpm * (4 * ratio) / 240, so a whole bpm and a
\* whole rootFreq give a whole number of 1/240 Hz.
HzUnit == 240

\* const beatHz = bpm / 60; ... beatHz * ratio
beatHz(tempo, idx) == tempo * beatRatios[idx]

calculateFrequenciesShifted(tempo, root) ==
    [idx \in Channels |->
        IF idx = 0
        THEN HzUnit * root
        ELSE HzUnit * root + beatHz(tempo, idx - 1)]

\* beatRatios.map((ratio, idx) =>
\*     idx === 0 ? rootFreq : rootFreq + beatHz * ratio)
calculateFrequencies(tempo, root) ==
    [idx \in Channels |->
        IF idx = 0
        THEN HzUnit * root
        ELSE HzUnit * root + beatHz(tempo, idx)]

getBeatFrequencyPerMinute(tempo, idx) ==
    IF idx = 0 THEN 0 ELSE 60 * beatHz(tempo, idx)

\* idx === 0 ? 0 : (bpm / 60) * beatRatios[idx]
getBeatFrequency(tempo, idx) ==
    IF idx = 0 THEN 0 ELSE beatHz(tempo, idx)

\* const frequencies = calculateFrequencies() in the render that follows a
\* step
FrequencyEffect ==
    frequencies' = calculateFrequencies(bpm', rootFreq')

----------------------------------------------------------------------------
(* Master gain *)

\* const actualVolume = masterMuted ? 0 : masterVolume (master gain effect)
actualVolume(isMuted, volume) == IF isMuted THEN 0 ELSE volume

MasterGainEffectOnVolumeOnly ==
    masterGain' =
        IF masterVolume' # masterVolume
        THEN actualVolume(masterMuted', masterVolume')
        ELSE masterGain

\* The master gain effect (deps [masterVolume, masterMuted]) of the render
\* that follows a step: gain.rampTo(actualVolume, 0.05) when a dependency
\* changed.  masterGain is the value the gain is heading to.
MasterGainEffect ==
    masterGain' =
        IF <<masterVolume', masterMuted'>> # <<masterVolume, masterMuted>>
        THEN actualVolume(masterMuted', masterVolume')
        ELSE masterGain

----------------------------------------------------------------------------
(* Initial state: the useState / useRef initial values and the nodes the   *)
(* mount effect creates                                                    *)

Init ==
    /\ isPlaying = FALSE
    /\ audioReady = FALSE
    /\ masterVolume = 300000
    /\ drawMasterVolume = 300000
    /\ data = [i \in 1..FrameLen |-> 0]
    /\ pendingToggles = <<>>
    /\ masterMuted = FALSE
    /\ masterGain = 300000
    /\ mounted = TRUE
    /\ pendingRestores = <<>>
    /\ resetFlash = FALSE
    /\ flashTimers = <<>>
    /\ oscPhase = [idx \in Channels |-> 0]
    /\ lfoStartTime = 0
    /\ disposedWrites = 0
    /\ resets = 0
    /\ rootFreq = 440
    /\ frequencies = calculateFrequencies(60, 440)
    /\ volumes = [idx \in Channels |-> 50]
    /\ lfoRates = [idx \in Channels |-> 500]
    /\ lfoAmounts = [idx \in Channels |-> 0]
    /\ muted = [idx \in Channels |-> FALSE]
    /\ modulatedVolumes = [idx \in Channels |-> 500000]
    /\ gains = [idx \in Channels |-> 0]
    /\ edits = 0
    /\ lfoFrameLive = TRUE
    /\ lfoOrphans = 0
    /\ drawFrameLive = FALSE
    /\ drawOrphans = 0
    /\ trace = FlatLine
    /\ pendingInits = 0
    /\ disposed = {}
    /\ disposedUses = {}
    /\ bpm = 60
    /\ tapTimes = <<>>
    /\ now = 0
    /\ tapLog = <<>>
    /\ freeTaps = 0
    /\ op = "init"

----------------------------------------------------------------------------
(* Transport and master fader *)

OscilloscopeEffectKeepingTrace(playing) ==
    LET cancelled == CancelFrame(drawFrameLive, drawOrphans)
        requested == RequestFrame(cancelled.live, cancelled.orphans)
    IN  IF playing
        THEN /\ drawMasterVolume' = masterVolume
             /\ drawFrameLive' = requested.live
             /\ drawOrphans' = requested.orphans
             /\ \E frame \in Frames : Draw(frame, masterVolume)
        ELSE /\ drawFrameLive' = cancelled.live
             /\ drawOrphans' = cancelled.orphans
             /\ UNCHANGED <<drawMasterVolume, data, masterVolume, trace,
                            disposedUses>>

\* The oscilloscope effect (deps [isPlaying]) after isPlaying became playing:
\* started, it creates draw over the masterVolume of this render and calls
\* it once; stopped, it draws the flat line at half height.  In both cases
\* the cleanup of the effect's last run comes first and cancels the frame
\* the ref holds.
OscilloscopeEffect(playing) ==
    LET cancelled == CancelFrame(drawFrameLive, drawOrphans)
        requested == RequestFrame(cancelled.live, cancelled.orphans)
    IN  IF playing
        THEN /\ drawMasterVolume' = masterVolume
             /\ drawFrameLive' = requested.live
             /\ drawOrphans' = requested.orphans
             /\ \E frame \in Frames : Draw(frame, masterVolume)
        ELSE /\ drawFrameLive' = cancelled.live
             /\ drawOrphans' = cancelled.orphans
             /\ trace' = FlatLine
             /\ UNCHANGED <<drawMasterVolume, data, masterVolume,
                            disposedUses>>

LfoEffectWithoutCleanup ==
    LET requested == RequestFrame(lfoFrameLive, lfoOrphans)
    IN  /\ lfoFrameLive' = requested.live
        /\ lfoOrphans' = requested.orphans

\* The LFO effect (deps [volumes, lfoRates, lfoAmounts, isPlaying, muted])
\* after a dependency changed: its cleanup cancels the pending frame, its
\* body requests a new one.
LfoEffect ==
    LET cancelled == CancelFrame(lfoFrameLive, lfoOrphans)
        requested == RequestFrame(cancelled.live, cancelled.orphans)
    IN  /\ lfoFrameLive' = requested.live
        /\ lfoOrphans' = requested.orphans

\* The effect with deps [isPlaying] that silences the channels: stopped, it
\* sets every channel gain to 0.
StopGainsEffect(playing) ==
    gains' = IF playing THEN gains ELSE [idx \in Channels |-> 0]

\* setIsPlaying(value) and the effects of the render it causes
SetIsPlaying(value) ==
    /\ isPlaying' = value
    /\ IF value # isPlaying
       THEN OscilloscopeEffect(value) /\ StopGainsEffect(value) /\ LfoEffect
       ELSE UNCHANGED <<drawMasterVolume, data, masterVolume, gains, trace,
                        disposedUses, loopVars>>
    /\ UNCHANGED masterMuted
    /\ MasterGainEffect

\* what the transport, the master fader and the oscilloscope loop leave alone
guardFrame ==
    <<resetVars, tempoVars, tapVars, volumes, lfoRates, lfoAmounts, muted,
      modulatedVolumes, edits, pendingInits, disposed>>

\* togglePlay with audio ready: setIsPlaying(!isPlaying)
TogglePlay ==
    /\ mounted
    /\ audioReady
    /\ SetIsPlaying(~isPlaying)
    /\ op' = "togglePlay"
    /\ UNCHANGED <<audioReady, pendingToggles>>
    /\ UNCHANGED guardFrame

TogglePlayWithoutAwait ==
    /\ mounted
    /\ ~audioReady
    /\ SetIsPlaying(~isPlaying)
    /\ op' = "togglePlay"
    /\ UNCHANGED <<audioReady, pendingToggles>>
    /\ UNCHANGED guardFrame

\* togglePlay before audio is ready: suspends at await Tone.start(), holding
\* the isPlaying of the render it was called in
TogglePlayAwait ==
    /\ mounted
    /\ ~audioReady
    /\ Len(pendingToggles) < MaxPendingToggles
    /\ pendingToggles' = Append(pendingToggles, isPlaying)
    /\ op' = "togglePlayAwait"
    /\ UNCHANGED <<isPlaying, audioReady, masterVolume, drawMasterVolume, data>>
    /\ UNCHANGED <<masterVars, gains, loopVars, trace, disposedUses, guardFrame>>

\* Tone.start() resolved: setAudioReady(true); setIsPlaying(!isPlaying)
TogglePlayResume ==
    /\ mounted
    /\ pendingToggles # <<>>
    /\ audioReady' = TRUE
    /\ SetIsPlaying(~Head(pendingToggles))
    /\ pendingToggles' = Tail(pendingToggles)
    /\ op' = "togglePlay"
    /\ UNCHANGED guardFrame

\* the master fader: onChange={setMasterVolume}
SetMasterVolume(v) ==
    /\ mounted
    /\ masterVolume' = v
    /\ UNCHANGED masterMuted
    /\ MasterGainEffect
    /\ op' = "setMasterVolume"
    /\ UNCHANGED <<isPlaying, audioReady, drawMasterVolume, data, pendingToggles>>
    /\ UNCHANGED <<gains, loopVars, trace, disposedUses, guardFrame>>

\* one animation frame of the oscilloscope loop: a pending frame comes due,
\* draw requests the next one and runs
DrawTick ==
    /\ \E held \in PendingFrames(drawFrameLive, drawOrphans) :
          LET fired == FireFrame(drawFrameLive, drawOrphans, held)
              requested == RequestFrame(fired.live, fired.orphans)
          IN  /\ drawFrameLive' = requested.live
              /\ drawOrphans' = requested.orphans
    /\ \E frame \in Frames : Draw(frame, drawMasterVolume)
    /\ UNCHANGED masterMuted
    /\ MasterGainEffect
    /\ op' = "draw"
    /\ UNCHANGED <<isPlaying, audioReady, drawMasterVolume, pendingToggles>>
    /\ UNCHANGED <<gains, lfoFrameLive, lfoOrphans, guardFrame>>

Next ==
    \/ TogglePlay
    \/ TogglePlayAwait
    \/ TogglePlayResume
    \/ \E v \in UserVolumes : SetMasterVolume(v)
    \/ DrawTick

Spec == Init /\ [][Next]_vars

----------------------------------------------------------------------------
(* Tap tempo: handleTapTempo, App.jsx:613-645 *)

ResetGapMs == 2000

TapCapacity == 8

MsPerMinute == 60000

MinBpm == 1

MaxBpm == 300

\* 60000 / 0 in floating point; Math.round and Math.min keep it above 300
Infinity == 2147483647

\* taps.length > 0 && now - taps[taps.length - 1] > 2000
GapExceeded(taps, t) ==
    Len(taps) > 0 /\ t - taps[Len(taps)] > ResetGapMs

KeepAllTaps(taps) == taps

\* if (taps.length > 8) taps.shift()
KeepLastTaps(taps) ==
    IF Len(taps) > TapCapacity THEN Tail(taps) ELSE taps

\* for (i = 1; i < taps.length; i++) totalInterval += taps[i] - taps[i - 1]
RECURSIVE TotalInterval(_)
TotalInterval(taps) ==
    IF Len(taps) < 2
    THEN 0
    ELSE TotalInterval(SubSeq(taps, 1, Len(taps) - 1))
           + (taps[Len(taps)] - taps[Len(taps) - 1])

\* Math.round(60000 / (totalInterval / (taps.length - 1))): the quotient
\* rounded to the nearest integer, halves upwards
CalculatedBpm(taps) ==
    LET total == TotalInterval(taps)
        n     == Len(taps) - 1
    IN  IF total = 0
        THEN Infinity
        ELSE (2 * MsPerMinute * n + total) \div (2 * total)

ClampBpmAbove(calculated) == Min(MaxBpm, calculated)

\* Math.max(1, Math.min(300, calculatedBpm))
ClampBpm(calculated) == Max(MinBpm, Min(MaxBpm, calculated))

\* handleTapTempo at Date.now() = t.  taps is the array tapTimesRef.current
\* held when the handler started: the reset assigns a new empty array to the
\* ref, while push, shift and the estimate go on using taps.
handleTapTempo(t) ==
    LET taps == KeepLastTaps(Append(tapTimes, t))
    IN  /\ tapTimes' = IF GapExceeded(tapTimes, t) THEN <<>> ELSE taps
        /\ bpm' = IF Len(taps) >= 2 THEN ClampBpm(CalculatedBpm(taps)) ELSE bpm

\* the user taps d ms after the previous event
TapAfter(d) ==
    /\ mounted
    /\ Len(tapLog) < MaxTaps
    /\ now' = now + d
    /\ handleTapTempo(now + d)
    /\ tapLog' = Append(tapLog, now + d)
    /\ op' = "tap"
    /\ UNCHANGED rootFreq
    /\ FrequencyEffect
    /\ UNCHANGED <<guardVars, masterVars, resetVars, lfoVars, loopVars,
                   sessionVars>>

\* the first tap of the run
FirstTap ==
    /\ tapLog = <<>>
    /\ freeTaps' = freeTaps
    /\ TapAfter(0)

\* a later tap at an interval chosen from TapIntervals
Tap ==
    /\ tapLog # <<>>
    /\ freeTaps < MaxFreeTaps
    /\ freeTaps' = freeTaps + 1
    /\ \E d \in TapIntervals : TapAfter(d)

\* a tap that keeps the interval of the two taps before it
RepeatTap ==
    /\ Len(tapLog) >= 2
    /\ freeTaps' = freeTaps
    /\ TapAfter(tapLog[Len(tapLog)] - tapLog[Len(tapLog) - 1])

TapNext ==
    \/ FirstTap
    \/ Tap
    \/ RepeatTap

TapSpec == Init /\ [][TapNext]_vars

----------------------------------------------------------------------------
(* Phase reset: resetOscillators, App.jsx:522-549; teardown, App.jsx:334-340 *)

\* calls of resetOscillators in one run
MaxResets == 2

\* the clock stops advancing in 5 ms steps at this time, ms; pending timers
\* still come due after it
MaxResetTime == 20

\* setTimeout(..., 10)
RestoreDelayMs == 10

\* setTimeout(() => setResetFlash(false), 150)
FlashMs == 150

\* ms the clock advances in one step between events: a short step, and one
\* that takes the clock from the restore of a reset (10 ms) to 5 ms before
\* the indicator timer of that reset is due
TimeSteps == {5, 135}

\* oscillator phases are counted in 1/2000 degree: an oscillator at f/240 Hz
\* advances 3 * f of them per ms
FullTurn == 360 * 2000

currentVolIgnoringMute(isMuted, volume) == volume

\* const currentVol = masterMuted ? 0 : masterVolume
currentVol(isMuted, volume) == IF isMuted THEN 0 ELSE volume

\* the times at which a pending timer is due
DueTimes ==
    {pendingRestores[i].due : i \in DOMAIN pendingRestores}
        \cup {flashTimers[i] : i \in DOMAIN flashTimers}

\* what the phase reset, its timers and the clock leave alone
resetFrame ==
    <<guardVars, masterMuted, tempoVars, lfoVars, bpm, tapTimes, tapLog,
      freeTaps, lfoOrphans, drawOrphans, trace, pendingInits, disposedUses>>

\* what the phase reset, its timers and the clock leave alone as long as the
\* component stays as it is
loopsAndNodes == <<lfoFrameLive, drawFrameLive, disposed>>

\* the body of if (masterGainRef.current) {...}; the ref is assigned by the
\* mount effect and never cleared, so the test passes on every call
MuteAndResync ==
    /\ masterGain' = 0
    /\ oscPhase' = [idx \in Channels |-> 0]
    /\ lfoStartTime' = now
    /\ pendingRestores' =
           Append(pendingRestores,
                  [due |-> now + RestoreDelayMs,
                   vol |-> currentVol(masterMuted, masterVolume)])

resetOscillatorsUnlessPending ==
    /\ mounted
    /\ resets < MaxResets
    /\ resets' = resets + 1
    /\ resetFlash' = TRUE
    /\ flashTimers' = Append(flashTimers, now + FlashMs)
    /\ IF pendingRestores = <<>>
       THEN MuteAndResync
       ELSE UNCHANGED <<masterGain, oscPhase, lfoStartTime, pendingRestores>>
    /\ op' = "reset"
    /\ UNCHANGED <<mounted, disposedWrites, now>>
    /\ UNCHANGED <<resetFrame, loopsAndNodes>>

\* the Reset button at Date.now() = now
resetOscillators ==
    /\ mounted
    /\ resets < MaxResets
    /\ resets' = resets + 1
    /\ resetFlash' = TRUE
    /\ flashTimers' = Append(flashTimers, now + FlashMs)
    /\ MuteAndResync
    /\ op' = "reset"
    /\ UNCHANGED <<mounted, disposedWrites, now>>
    /\ UNCHANGED <<resetFrame, loopsAndNodes>>

\* the restore timer fires: if (masterGainRef.current) gain.value = currentVol.
\* The ref still holds the node after the teardown disposed it, so the write
\* happens then too; disposedWrites counts those writes.
RestoreTimerFires ==
    /\ pendingRestores # <<>>
    /\ Head(pendingRestores).due <= now
    /\ masterGain' = Head(pendingRestores).vol
    /\ pendingRestores' = Tail(pendingRestores)
    /\ disposedWrites' = IF mounted THEN disposedWrites ELSE disposedWrites + 1
    /\ op' = "restore"
    /\ UNCHANGED <<mounted, resetFlash, flashTimers, oscPhase, lfoStartTime,
                   resets, now>>
    /\ UNCHANGED <<resetFrame, loopsAndNodes>>

\* the flash timer fires: setResetFlash(false), ignored once unmounted
FlashTimerFires ==
    /\ flashTimers # <<>>
    /\ Head(flashTimers) <= now
    /\ flashTimers' = Tail(flashTimers)
    /\ resetFlash' = IF mounted THEN FALSE ELSE resetFlash
    /\ op' = "flashOff"
    /\ UNCHANGED <<mounted, masterGain, pendingRestores, oscPhase,
                   lfoStartTime, disposedWrites, resets, now>>
    /\ UNCHANGED <<resetFrame, loopsAndNodes>>

\* the phases after d ms
PhaseAfter(d) ==
    IF mounted
    THEN [idx \in Channels |->
             (oscPhase[idx] + 3 * frequencies[idx] * d) % FullTurn]
    ELSE oscPhase

\* d ms pass with no event; a timer fires no later than it is due.  Every
\* oscillator was started by the mount effect (.start()) and runs at its
\* frequency until the teardown disposes it.
TimePasses(d) ==
    /\ \A due \in DueTimes : now + d <= due
    /\ now' = now + d
    /\ oscPhase' = PhaseAfter(d)
    /\ UNCHANGED <<mounted, masterGain, pendingRestores, resetFlash,
                   flashTimers, lfoStartTime, disposedWrites, resets, op>>
    /\ UNCHANGED <<resetFrame, loopsAndNodes>>

\* the clock advances by a step
AdvanceTime ==
    /\ now < MaxResetTime
    /\ \E d \in TimeSteps : TimePasses(d)

\* nothing happens until the next timer is due
WaitForTimer ==
    /\ DueTimes # {}
    /\ \E due \in DueTimes :
          /\ due > now
          /\ TimePasses(due - now)

\* the master mute button: setMasterMuted(!masterMuted)
ToggleMasterMute ==
    /\ mounted
    /\ masterMuted' = ~masterMuted
    /\ UNCHANGED masterVolume
    /\ MasterGainEffect
    /\ op' = "toggleMasterMute"
    /\ UNCHANGED <<isPlaying, audioReady, drawMasterVolume, data, pendingToggles>>
    /\ UNCHANGED <<gains, loopVars, trace, disposedUses, guardFrame>>

UnmountKeepingLfoLoop ==
    /\ mounted
    /\ mounted' = FALSE
    /\ disposed' = AudioNodes
    /\ drawFrameLive' = CancelFrame(drawFrameLive, drawOrphans).live
    /\ UNCHANGED lfoFrameLive
    /\ op' = "unmount"
    /\ UNCHANGED <<masterGain, pendingRestores, resetFlash, flashTimers,
                   oscPhase, lfoStartTime, disposedWrites, resets, now>>
    /\ UNCHANGED resetFrame

UnmountKeepingAnalyser ==
    /\ mounted
    /\ mounted' = FALSE
    /\ disposed' = AudioNodes \ {"analyser"}
    /\ drawFrameLive' = CancelFrame(drawFrameLive, drawOrphans).live
    /\ lfoFrameLive' = CancelFrame(lfoFrameLive, lfoOrphans).live
    /\ op' = "unmount"
    /\ UNCHANGED <<masterGain, pendingRestores, resetFlash, flashTimers,
                   oscPhase, lfoStartTime, disposedWrites, resets, now>>
    /\ UNCHANGED resetFrame

\* the component unmounts and the cleanup of every effect runs: the mount
\* effect disposes the oscillators, the gains, the master gain and the
\* analyser and cancels the frame in animationRef; the LFO effect cancels the
\* frame in lfoAnimationRef; the oscilloscope effect cancels the frame in
\* animationRef.  No timer and no ref is cleared.
Unmount ==
    /\ mounted
    /\ mounted' = FALSE
    /\ disposed' = AudioNodes
    /\ drawFrameLive' = CancelFrame(drawFrameLive, drawOrphans).live
    /\ lfoFrameLive' = CancelFrame(lfoFrameLive, lfoOrphans).live
    /\ op' = "unmount"
    /\ UNCHANGED <<masterGain, pendingRestores, resetFlash, flashTimers,
                   oscPhase, lfoStartTime, disposedWrites, resets, now>>
    /\ UNCHANGED resetFrame

ResetNext ==
    \/ resetOscillators
    \/ RestoreTimerFires
    \/ FlashTimerFires
    \/ AdvanceTime
    \/ WaitForTimer
    \/ \E v \in UserVolumes : SetMasterVolume(v)
    \/ ToggleMasterMute
    \/ Unmount

ResetSpec == Init /\ [][ResetNext]_vars

----------------------------------------------------------------------------
(* Tempo and root frequency inputs: App.jsx:1027-1057, 1062-1079 *)

\* the digits a number field may hold: a text is a sequence of decimal
\* digits, <<>> the emptied field
TypedTexts ==
    {<<>>, <<0>>, <<1>>, <<2, 0>>, <<6, 0>>, <<3, 0, 0>>, <<5, 0, 0>>,
     <<2, 0, 0, 0>>, <<9, 9, 9, 9>>}

\* positions of the BPM slider: min 1, max 300, step 1
BpmSliderValues == {1, 120, 300}

\* positions of the root frequency slider: min 20, max 2000, whole Hz
RootSliderValues == {20, 440, 2000}

RECURSIVE DecimalValue(_)
DecimalValue(text) ==
    IF text = <<>>
    THEN 0
    ELSE 10 * DecimalValue(SubSeq(text, 1, Len(text) - 1)) + text[Len(text)]

\* parseFloat(e.target.value): NaN for the empty text
parseFloat(text) == [nan |-> text = <<>>, value |-> DecimalValue(text)]

\* x || 0: 0 when x is NaN or 0
OrZero(x) == IF x.nan \/ x.value = 0 THEN 0 ELSE x.value

\* parseFloat(e.target.value) || 0, the value a number field stores; the
\* field's min and max attributes take no part in it
FieldValue(text) == OrZero(parseFloat(text))

\* what the tempo and root inputs leave alone
tempoFrame ==
    <<guardVars, masterVars, resetVars, lfoVars, loopVars, sessionVars,
      tapTimes, now, tapLog, freeTaps>>

\* the BPM number field: onChange={(e) => setBpm(parseFloat(...) || 0)}
TypeBpm(text) ==
    /\ mounted
    /\ bpm' = FieldValue(text)
    /\ UNCHANGED rootFreq
    /\ FrequencyEffect
    /\ op' = "typeBpm"
    /\ UNCHANGED tempoFrame

\* the BPM slider: onChange={(e) => setBpm(parseFloat(e.target.value))}
SlideBpm(v) ==
    /\ mounted
    /\ bpm' = v
    /\ UNCHANGED rootFreq
    /\ FrequencyEffect
    /\ op' = "slideBpm"
    /\ UNCHANGED tempoFrame

\* the root number field: onChange={(e) => setRootFreq(parseFloat(...) || 0)}
TypeRootFreq(text) ==
    /\ mounted
    /\ rootFreq' = FieldValue(text)
    /\ UNCHANGED bpm
    /\ FrequencyEffect
    /\ op' = "typeRootFreq"
    /\ UNCHANGED tempoFrame

\* the root slider: onChange={(e) => setRootFreq(parseFloat(e.target.value))}
SlideRootFreq(v) ==
    /\ mounted
    /\ rootFreq' = v
    /\ UNCHANGED bpm
    /\ FrequencyEffect
    /\ op' = "slideRootFreq"
    /\ UNCHANGED tempoFrame

TempoNext ==
    \/ \E text \in TypedTexts : TypeBpm(text)
    \/ \E v \in BpmSliderValues : SlideBpm(v)
    \/ \E text \in TypedTexts : TypeRootFreq(text)
    \/ \E v \in RootSliderValues : SlideRootFreq(v)

TempoSpec == Init /\ [][TempoNext]_vars

----------------------------------------------------------------------------
(* LFO modulation: animateLFO, App.jsx:364-410 *)

\* changes of a channel parameter in one run
MaxLfoEdits == 2

\* the LFO loop stops ticking at this time, ms
MaxLfoTime == 1000

\* ms between two animation frames of the LFO loop in the model
LfoFrameSteps == {250}

\* the channels whose parameters are changed: Root and the x1 channel
EditedChannels == {0, 3}

\* positions of a channel fader (min 0, max 1, step 0.01), hundredths
ChannelVolumes == {0, 1, 25, 50, 75, 99, 100}

\* positions of an LFO amount knob (min 0, max 1), hundredths
LfoAmountValues == {0, 1, 50, 100}

\* positions of an LFO rate knob (min 0.002, max 5 Hz), mHz
LfoRateValues == {500, 1500}

\* 1.0 in millionths
One == 1000000

\* Math.sin(turns * 2 * Math.PI) in hundredths, at a whole number of
\* eighths of a turn
Sin8(eighths) == <<0, 71, 100, 71, 0, -71, -100, -71>>[(eighths % 8) + 1]

\* Math.sin(elapsed * rate * 2 * Math.PI) for elapsed in ms and rate in mHz:
\* elapsed * rate / 1000000 turns, taken down to a whole eighth
lfoValueAt(elapsed, rate) == Sin8((elapsed * rate) \div 125000)

\* const maxUp = 1 - baseVol
maxUp(baseVol) == 100 - baseVol

\* const maxDown = baseVol
maxDown(baseVol) == baseVol

modulationRangeUncapped(baseVol, amount) == 100 * amount

modulationRangeUpOnly(baseVol, amount) ==
    Min(maxUp(baseVol), 50) * 2 * amount

\* Math.min(maxUp, maxDown, 0.5) * 2 * amount, in 1/10000
modulationRange(baseVol, amount) ==
    Min(Min(maxUp(baseVol), maxDown(baseVol)), 50) * 2 * amount

\* const modulation = lfoValue * (modulationRange / 2), in millionths
modulation(baseVol, amount, lfoValue) ==
    lfoValue * (modulationRange(baseVol, amount) \div 2)

ModulatedVolumeUnbounded(baseVol, amount, lfoValue) ==
    baseVol * 10000 + lfoValue * 50 * amount

ModulatedVolumeFullDepth(baseVol, amount, lfoValue) ==
    Max(0, Min(One, baseVol * 10000 + modulation(baseVol, 100, lfoValue)))

ModulatedVolumeClampedOnly(baseVol, amount, lfoValue) ==
    Max(0, Min(One, baseVol * 10000 + lfoValue * 50 * amount))

\* the body of volumes.map((baseVol, idx) => ...), in millionths:
\* if (amount === 0) return baseVol; ...
\* return Math.max(0, Math.min(1, baseVol + modulation))
ModulatedVolume(baseVol, amount, lfoValue) ==
    IF amount = 0
    THEN baseVol * 10000
    ELSE Max(0, Min(One, baseVol * 10000
                           + modulation(baseVol, amount, lfoValue)))

animateLFOIgnoringTransport(t) ==
    LET elapsed == t - lfoStartTime
        newModulatedVolumes ==
            [idx \in Channels |->
                ModulatedVolume(volumes[idx], lfoAmounts[idx],
                                lfoValueAt(elapsed, lfoRates[idx]))]
    IN  /\ modulatedVolumes' = newModulatedVolumes
        /\ gains' = [idx \in Channels |->
                        IF ~muted[idx] THEN newModulatedVolumes[idx] ELSE 0]

animateLFOIgnoringMute(t) ==
    LET elapsed == t - lfoStartTime
        newModulatedVolumes ==
            [idx \in Channels |->
                ModulatedVolume(volumes[idx], lfoAmounts[idx],
                                lfoValueAt(elapsed, lfoRates[idx]))]
    IN  /\ modulatedVolumes' = newModulatedVolumes
        /\ gains' = [idx \in Channels |->
                        IF isPlaying THEN newModulatedVolumes[idx] ELSE 0]

\* animateLFO at Date.now() = t: the modulated volumes are stored and each
\* channel gain is set to its modulated volume, or to 0 when the transport
\* is stopped or the channel is muted
animateLFO(t) ==
    LET elapsed == t - lfoStartTime
        newModulatedVolumes ==
            [idx \in Channels |->
                ModulatedVolume(volumes[idx], lfoAmounts[idx],
                                lfoValueAt(elapsed, lfoRates[idx]))]
    IN  /\ modulatedVolumes' = newModulatedVolumes
        /\ gains' = [idx \in Channels |->
                        IF isPlaying /\ ~muted[idx]
                        THEN newModulatedVolumes[idx]
                        ELSE 0]

\* what the LFO loop and the channel controls leave alone
lfoFrame ==
    <<guardVars, masterVars, tempoVars, bpm, tapTimes, tapLog, freeTaps,
      drawFrameLive, drawOrphans, trace, pendingInits, disposed>>

\* one animation frame of the LFO loop: a pending frame comes due d ms after
\* the last step, animateLFO runs and requests the next frame
LfoTick ==
    /\ now < MaxLfoTime
    /\ \E held \in PendingFrames(lfoFrameLive, lfoOrphans) :
          LET fired == FireFrame(lfoFrameLive, lfoOrphans, held)
              requested == RequestFrame(fired.live, fired.orphans)
          IN  /\ lfoFrameLive' = requested.live
              /\ lfoOrphans' = requested.orphans
    /\ \E d \in LfoFrameSteps :
          /\ \A due \in DueTimes : now + d <= due
          /\ now' = now + d
          /\ oscPhase' = PhaseAfter(d)
          /\ animateLFO(now + d)
    /\ disposedUses' = UsesByTick({"gains"})
    /\ op' = "lfoTick"
    /\ UNCHANGED <<volumes, lfoRates, lfoAmounts, muted, edits>>
    /\ UNCHANGED <<mounted, pendingRestores, resetFlash, flashTimers,
                   lfoStartTime, disposedWrites, resets>>
    /\ UNCHANGED lfoFrame

\* a channel fader: handleVolumeChange(idx, value)
handleVolumeChange(idx, value) ==
    /\ mounted
    /\ edits < MaxLfoEdits
    /\ edits' = edits + 1
    /\ volumes' = [volumes EXCEPT ![idx] = value]
    /\ op' = "volumeChange"
    /\ LfoEffect
    /\ UNCHANGED <<lfoRates, lfoAmounts, muted, modulatedVolumes, gains, now>>
    /\ UNCHANGED <<resetVars, disposedUses, lfoFrame>>

\* an LFO rate knob: handleLfoRateChange(idx, value)
handleLfoRateChange(idx, value) ==
    /\ mounted
    /\ edits < MaxLfoEdits
    /\ edits' = edits + 1
    /\ lfoRates' = [lfoRates EXCEPT ![idx] = value]
    /\ op' = "lfoRateChange"
    /\ LfoEffect
    /\ UNCHANGED <<volumes, lfoAmounts, muted, modulatedVolumes, gains, now>>
    /\ UNCHANGED <<resetVars, disposedUses, lfoFrame>>

\* an LFO amount knob: handleLfoAmountChange(idx, value)
handleLfoAmountChange(idx, value) ==
    /\ mounted
    /\ edits < MaxLfoEdits
    /\ edits' = edits + 1
    /\ lfoAmounts' = [lfoAmounts EXCEPT ![idx] = value]
    /\ op' = "lfoAmountChange"
    /\ LfoEffect
    /\ UNCHANGED <<volumes, lfoRates, muted, modulatedVolumes, gains, now>>
    /\ UNCHANGED <<resetVars, disposedUses, lfoFrame>>

LfoNext ==
    \/ LfoTick
    \/ \E idx \in EditedChannels, value \in ChannelVolumes :
          handleVolumeChange(idx, value)
    \/ \E idx \in EditedChannels, value \in LfoRateValues :
          handleLfoRateChange(idx, value)
    \/ \E idx \in EditedChannels, value \in LfoAmountValues :
          handleLfoAmountChange(idx, value)

LfoSpec == Init /\ [][LfoNext]_vars

----------------------------------------------------------------------------
(* Audio start: initAudio and togglePlay, App.jsx:506-519; teardown of the  *)
(* session with both animation loops, App.jsx:334-340, 405-409, 498-502    *)

\* initAudio calls that may wait for Tone.start() at the same time
MaxPendingInits == 1

\* what initAudio leaves alone
initFrame ==
    <<isPlaying, masterVolume, drawMasterVolume, data, pendingToggles,
      masterVars, resetVars, tempoVars, lfoVars, loopVars, trace, disposed,
      disposedUses, tapVars>>

\* initAudio (mouse down anywhere in the container) before audio is ready:
\* suspends at await Tone.start().  With audio ready it does nothing.
InitAudioAwait ==
    /\ mounted
    /\ ~audioReady
    /\ pendingInits < MaxPendingInits
    /\ pendingInits' = pendingInits + 1
    /\ op' = "initAudioAwait"
    /\ UNCHANGED audioReady
    /\ UNCHANGED initFrame

\* Tone.start() resolved in initAudio: setAudioReady(true)
InitAudioResume ==
    /\ mounted
    /\ pendingInits > 0
    /\ pendingInits' = pendingInits - 1
    /\ audioReady' = TRUE
    /\ op' = "initAudio"
    /\ UNCHANGED initFrame

StartNext ==
    \/ InitAudioAwait
    \/ InitAudioResume
    \/ TogglePlay
    \/ TogglePlayAwait
    \/ TogglePlayResume

StartSpec == Init /\ [][StartNext]_vars

TeardownNext ==
    \/ TogglePlayAwait
    \/ TogglePlayResume
    \/ DrawTick
    \/ LfoTick
    \/ Unmount

TeardownSpec == Init /\ [][TeardownNext]_vars

----------------------------------------------------------------------------
(* The controls of the mixer: VerticalSlider, App.jsx:158-200; Knob,        *)
(* App.jsx:6-77; toggleMute and the randomize buttons, App.jsx:557-587     *)

\* pointer heights on a fader, e.clientY - rect.top in thousandths of
\* rect.height: above the track, just below its top, just above its bottom,
\* below the track
PointerYs == {-200, 4, 996, 1300}

\* the sum startPosition + deltaY * sensitivity of a knob drag, in
\* hundredths of the full turn: past the lower end and past the upper end
KnobDrags == {-50, 150}

\* values of Math.random() in hundredths, taken down; it is never 1
RandomUnits == {0, 99}

\* the draws of one randomize click, one per channel
RandomDraws == {[idx \in Channels |-> r] : r \in RandomUnits}

\* the channel whose mute button, fader and knobs are used in a run: x1
MutedChannels == {3}

\* Knob min and max of the Rate knob, mHz
MinLfoRate == 2
MaxLfoRate == 5000

updateValueUnclamped(y) == ((1000 - y) + 5) \div 10

\* VerticalSlider.updateValue for min 0, max 1, step 0.01, in hundredths:
\* percentage = 1 - y / rect.height, clamped to [0, 1], and
\* Math.round(newValue / step) * step
updateValue(y) ==
    LET percentage == 1000 - y
        clampedPercentage == Max(0, Min(1000, percentage))
    IN  (clampedPercentage + 5) \div 10

\* newPosition = Math.max(0, Math.min(1, newPosition)), in hundredths
newPosition(drag) == Max(0, Min(100, drag))

\* (max / min) ^ pos for the Rate knob, max / min = 2500, at a whole number
\* of quarters, in hundredths: 1, 7.07, 50, 353.55, 2500
RatePower(quarters) == <<100, 707, 5000, 35355, 250000>>[quarters + 1]

\* Knob.positionToValue: min * Math.pow(max / min, pos) in mHz for the
\* exponential Rate knob, min + pos * (max - min) in hundredths for the
\* Amt knob (min 0, max 1)
positionToValue(exponential, pos) ==
    IF exponential
    THEN (MinLfoRate * RatePower(pos \div 25)) \div 100
    ELSE pos

\* minRate * Math.pow(maxRate / minRate, t) of randomizeLFO in mHz, for
\* t = 0 and t = 0.99: 16.67 and 959.9 (taken to the nearest mHz)
RandomRate(t) == CASE t = 0 -> 17 [] t = 99 -> 960

\* a drag or a click on the master fader
MoveMasterFader(y) == SetMasterVolume(updateValue(y) * 10000)

\* a drag or a click on a channel fader
MoveChannelFader(idx, y) == handleVolumeChange(idx, updateValue(y))

\* a drag of a Rate knob, committed on release
TurnRateKnob(idx, drag) ==
    handleLfoRateChange(idx, positionToValue(TRUE, newPosition(drag)))

\* a drag of an Amt knob, committed on release
TurnAmountKnob(idx, drag) ==
    handleLfoAmountChange(idx, positionToValue(FALSE, newPosition(drag)))

toggleMuteRestartingClock(idx) ==
    /\ mounted
    /\ muted' = [muted EXCEPT ![idx] = ~muted[idx]]
    /\ lfoStartTime' = now
    /\ op' = "toggleMute"
    /\ LfoEffect
    /\ UNCHANGED <<volumes, lfoRates, lfoAmounts, modulatedVolumes, gains,
                   edits, now>>
    /\ UNCHANGED <<mounted, pendingRestores, resetFlash, flashTimers,
                   oscPhase, disposedWrites, resets>>
    /\ UNCHANGED <<disposedUses, lfoFrame>>

\* a mute button: toggleMute(idx).  The gain of the channel follows at the
\* next tick of the LFO loop, which the change of muted restarts.
toggleMute(idx) ==
    /\ mounted
    /\ muted' = [muted EXCEPT ![idx] = ~muted[idx]]
    /\ UNCHANGED lfoStartTime
    /\ op' = "toggleMute"
    /\ LfoEffect
    /\ UNCHANGED <<volumes, lfoRates, lfoAmounts, modulatedVolumes, gains,
                   edits, now>>
    /\ UNCHANGED <<mounted, pendingRestores, resetFlash, flashTimers,
                   oscPhase, disposedWrites, resets>>
    /\ UNCHANGED <<disposedUses, lfoFrame>>

\* the Randomize Volumes button: channels 1 to 7 get Math.random() * 0.75
randomizeVolumes ==
    /\ mounted
    /\ edits < MaxLfoEdits
    /\ edits' = edits + 1
    /\ \E draw \in RandomDraws :
          volumes' = [idx \in Channels |->
                         IF idx = 0 THEN volumes[idx]
                         ELSE (draw[idx] * 75) \div 100]
    /\ op' = "randomizeVolumes"
    /\ LfoEffect
    /\ UNCHANGED <<lfoRates, lfoAmounts, muted, modulatedVolumes, gains, now>>
    /\ UNCHANGED <<resetVars, disposedUses, lfoFrame>>

\* the Randomize LFO button: every rate between 1/60 Hz and 1 Hz on an
\* exponential scale, every amount Math.random() * 0.5
randomizeLFO ==
    /\ mounted
    /\ edits < MaxLfoEdits
    /\ edits' = edits + 1
    /\ \E draw \in RandomDraws :
          lfoRates' = [idx \in Channels |-> RandomRate(draw[idx])]
    /\ \E draw \in RandomDraws :
          lfoAmounts' = [idx \in Channels |-> (draw[idx] * 50) \div 100]
    /\ op' = "randomizeLFO"
    /\ LfoEffect
    /\ UNCHANGED <<volumes, muted, modulatedVolumes, gains, now>>
    /\ UNCHANGED <<resetVars, disposedUses, lfoFrame>>

\* the play button pressed while playing, once the earlier presses have
\* resolved
StopPlayback ==
    /\ isPlaying
    /\ pendingToggles = <<>>
    /\ TogglePlay

\* the channel gains under the LFO loop: transport, a mute button, a fader
\* and an Amt knob
GainNext ==
    \/ TogglePlayAwait
    \/ TogglePlayResume
    \/ StopPlayback
    \/ \E idx \in MutedChannels : toggleMute(idx)
    \/ \E idx \in MutedChannels : handleVolumeChange(idx, 25)
    \/ \E idx \in MutedChannels : handleLfoAmountChange(idx, 100)
    \/ LfoTick

GainSpec == Init /\ [][GainNext]_vars

\* the modulation clock: transport, mutes, channel parameters and the phase
\* reset, with the clock running up to the timers of a reset
ClockNext ==
    \/ TogglePlayAwait
    \/ TogglePlayResume
    \/ StopPlayback
    \/ \E idx \in MutedChannels : toggleMute(idx)
    \/ ToggleMasterMute
    \/ \E idx \in MutedChannels : handleVolumeChange(idx, 25)
    \/ \E idx \in MutedChannels : handleLfoRateChange(idx, 1500)
    \/ resetOscillators
    \/ WaitForTimer

ClockSpec == Init /\ [][ClockNext]_vars

\* the controls that set the mix, and the clipping guard of the draw that
\* the start of playback runs
ControlNext ==
    \/ \E y \in PointerYs : MoveMasterFader(y)
    \/ \E idx \in MutedChannels, y \in PointerYs : MoveChannelFader(idx, y)
    \/ \E idx \in MutedChannels, drag \in KnobDrags : TurnRateKnob(idx, drag)
    \/ \E idx \in MutedChannels, drag \in KnobDrags : TurnAmountKnob(idx, drag)
    \/ randomizeVolumes
    \/ randomizeLFO
    \/ TogglePlayAwait
    \/ TogglePlayResume

ControlSpec == Init /\ [][ControlNext]_vars

\* the master gain: the master fader, the master mute button and the
\* clipping guard of the running oscilloscope loop
MasterNext ==
    \/ TogglePlayAwait
    \/ TogglePlayResume
    \/ StopPlayback
    \/ \E v \in UserVolumes : SetMasterVolume(v)
    \/ ToggleMasterMute
    \/ DrawTick

MasterSpec == Init /\ [][MasterNext]_vars

----------------------------------------------------------------------------
(* Properties of the clipping guard *)

\* the step ran draw: a frame of the loop, or the call the effect makes
\* when playback starts
DrawStep ==
    \/ op' = "draw"
    \/ op' = "togglePlay" /\ ~isPlaying /\ isPlaying'

\* some sample of the frame has magnitude above 0.95
ExceedsThreshold(frame) ==
    \E i \in 1..FrameLen : frame[i] > 950000 \/ frame[i] < -950000

\* C1: the guard never raises masterVolume: after every run of draw,
\* masterVolume is at most what it was immediately before, whatever the
\* user did to the fader since playback started.
C1_GuardNeverRaises ==
    [][DrawStep => masterVolume' <= masterVolume]_vars

\* C2: on every tick while playing, if the frame has a sample of magnitude
\* above 0.95 and the current masterVolume is above 0.1, masterVolume after
\* the tick is max(0.1, 0.95 * masterVolume).
C2_CorrectionOnEveryClippingTick ==
    [][(DrawStep /\ ExceedsThreshold(data') /\ masterVolume > 100000)
         => masterVolume' = Max(100000, (masterVolume * 95 + 50) \div 100)]_vars

\* C3: in a burst of clipping ticks without user volume changes, each tick
\* leaves masterVolume no higher than before, strictly lower while it is
\* above 0.1 (so it reaches 0.1), never below 0.1 once at or above it, and
\* unchanged once it is 0.1.
C3_BurstDecaysToFloor ==
    [][(DrawStep /\ ExceedsThreshold(data'))
         => /\ masterVolume' <= masterVolume
            /\ masterVolume > 100000
                 => (masterVolume' < masterVolume /\ masterVolume' >= 100000)
            /\ masterVolume = 100000 => masterVolume' = 100000]_vars

\* C4: a run of draw on a frame whose magnitudes are all at most 0.95
\* (0.95 itself included) leaves masterVolume unchanged.
C4_NoClipNoChange ==
    [][(DrawStep /\ ~ExceedsThreshold(data')) => masterVolume' = masterVolume]_vars

\* a tick has just read a frame whose largest magnitude is exactly 0.95,
\* with the guard armed and masterVolume above the floor
C4_Witness ==
    /\ op = "draw"
    /\ ~ExceedsThreshold(data)
    /\ \E i \in 1..FrameLen : Abs(data[i]) = 950000
    /\ drawMasterVolume > 100000
    /\ masterVolume > 100000

----------------------------------------------------------------------------
(* Properties of tap tempo, stated over the log of taps *)

\* the index in tapLog of the first tap of the current tapping session: no
\* two neighbouring taps from there on are more than 2000 ms apart
SessionStart ==
    LET n == Len(tapLog)
    IN  CHOOSE i \in 1..n :
          /\ \A j \in (i + 1)..n : tapLog[j] - tapLog[j - 1] <= 2000
          /\ \A k \in 1..(i - 1) :
               \E j \in (k + 1)..n : tapLog[j] - tapLog[j - 1] > 2000

\* the taps of the current tapping session
Session ==
    IF tapLog = <<>> THEN <<>> ELSE SubSeq(tapLog, SessionStart, Len(tapLog))

\* the most recent 8 taps of the current session
RecentSession ==
    IF Len(Session) > 8
    THEN SubSeq(Session, Len(Session) - 7, Len(Session))
    ELSE Session

\* round(60000 / mean interval of taps) clamped to [1,300], for two or more
\* taps that are not all at the same instant
Estimate(taps) ==
    LET span == taps[Len(taps)] - taps[1]
        n    == Len(taps) - 1
        r    == IF span = 0 THEN 300 ELSE (120000 * n + span) \div (2 * span)
    IN  IF r < 1 THEN 1 ELSE IF r > 300 THEN 300 ELSE r

\* C5: a tap more than 2000 ms after the previous one discards all prior
\* taps: whenever the current session has two or more taps, bpm is the
\* estimate from the taps of that session alone (3 taps 500 ms apart, a
\* 3000 ms gap, 2 taps 1000 ms apart: bpm = 60).
C5_GapDiscardsPriorTaps ==
    Len(Session) >= 2 => bpm = Estimate(RecentSession)

\* C6: a tap that leaves the tap buffer with fewer than 2 entries leaves
\* bpm unchanged.
C6_ShortBufferKeepsBpm ==
    [][(op' = "tap" /\ Len(tapTimes') < 2) => bpm' = bpm]_vars

\* C7: after the k-th of k taps (2 <= k <= 8) of a session that are all
\* d ms apart, 0 < d <= 2000, bpm = round(60000 / d) clamped to [1,300].
C7_EvenTapsGiveTempo ==
    \A d \in 1..2000 :
      ( /\ Len(Session) >= 2
        /\ Len(Session) <= 8
        /\ \A i \in 2..Len(Session) : Session[i] - Session[i - 1] = d )
      => bpm = (IF (120000 + d) \div (2 * d) > 300
                THEN 300
                ELSE (120000 + d) \div (2 * d))

\* C8: after every tap the stored buffer is the most recent min(n, 8) taps
\* of the current session, in order, ending with the timestamp of that tap.
C8_BufferIsRecentSession ==
    tapLog # <<>> =>
      /\ tapTimes = RecentSession
      /\ tapTimes[Len(tapTimes)] = now

\* C9: the stored tap buffer never holds more than 8 timestamps.
C9_BufferAtMostEight ==
    Len(tapTimes) <= 8

\* a ninth tap of one session has been made and the buffer holds 8
C9_Witness ==
    /\ Len(Session) >= 9
    /\ Len(tapTimes) = 8
    /\ tapTimes[8] = now

\* C10: bpm is an integer in [1,300] after any sequence of taps.
C10_BpmInRange ==
    bpm \in 1..300

\* a tap 200000 ms after the only earlier tap has written bpm = 1
C10_Witness ==
    /\ op = "tap"
    /\ Len(tapLog) = 2
    /\ tapLog[2] - tapLog[1] = 200000
    /\ bpm = 1

----------------------------------------------------------------------------
(* Properties of the phase reset *)

\* C11: when the component is torn down, a pending restore is cancelled and
\* the master gain is not written after its disposal.
C11_TeardownCancelsRestore ==
    ~mounted => (pendingRestores = <<>> /\ disposedWrites = 0)

\* a step of resetOscillators
ResetStep == resets' = resets + 1

\* a step in which a restore timer fires
RestoreStep ==
    /\ pendingRestores # <<>>
    /\ pendingRestores' = Tail(pendingRestores)

\* C12: a phase reset sets the master gain to 0 at once; when its restore
\* fires with no other event since the reset (the last event is a reset and
\* its restore is the only one pending), the master gain becomes the
\* effective master volume: masterVolume, or 0 while the master is muted.
C12_RestoreGivesEffectiveVolume ==
    [][/\ (ResetStep => masterGain' = 0)
       /\ ((op = "reset" /\ Len(pendingRestores) = 1 /\ RestoreStep) =>
              masterGain' = IF masterMuted THEN 0 ELSE masterVolume)]_vars

C12_Witness ==
    /\ op = "restore"
    /\ resets = 1
    /\ pendingRestores = <<>>
    /\ masterMuted
    /\ masterVolume > 0
    /\ masterGain = 0
    /\ now = RestoreDelayMs

\* C13: a reset called while the restore of an earlier reset is still
\* pending leaves every oscillator phase at 0 and the modulation clock
\* origin at the time of this later call.
C13_SecondResetResyncs ==
    [][(ResetStep /\ pendingRestores # <<>>) =>
          /\ \A idx \in Channels : oscPhase'[idx] = 0
          /\ lfoStartTime' = now']_vars

C13_Witness ==
    /\ op = "reset"
    /\ resets = 2
    /\ Len(pendingRestores) = 2
    /\ pendingRestores[1].due < pendingRestores[2].due
    /\ lfoStartTime = now
    /\ \A idx \in Channels : oscPhase[idx] = 0

----------------------------------------------------------------------------
(* Properties of the tempo inputs and the frequency model *)

\* C14: after any user input bpm is in [1, 300] and the root frequency is in
\* [20, 2000] Hz: an out-of-range or empty input is clamped.
C14_TempoStateInRange ==
    /\ 1 <= bpm /\ bpm <= 300
    /\ 20 <= rootFreq /\ rootFreq <= 2000

\* C15: the frequency list holds the root at index 0 and, at every other
\* index i, root + (bpm / 60) * ratio[i], for the ratios 0.25, 0.5, 1, 2, 4,
\* 8, 16 (all in 1/240 Hz).
C15_FrequenciesFollowRatios ==
    LET ratioTimes4 == <<1, 2, 4, 8, 16, 32, 64>>
    IN  /\ frequencies[0] = 240 * rootFreq
        /\ \A i \in 1..7 :
              frequencies[i] = 240 * rootFreq + bpm * ratioTimes4[i]

C15_Witness ==
    /\ op = "typeBpm"
    /\ bpm = 500
    /\ rootFreq = 9999
    /\ frequencies[7] = 240 * 9999 + 500 * 64

\* C16: for every channel the frequency minus the root frequency is the
\* beat frequency shown for the channel: (bpm / 60) * ratio, 0 for the Root
\* channel (all in 1/240 Hz).
C16_OffsetIsBeatFrequency ==
    \A idx \in Channels :
        /\ frequencies[idx] - 240 * rootFreq = getBeatFrequency(bpm, idx)
        /\ getBeatFrequency(bpm, idx) =
              IF idx = 0 THEN 0 ELSE bpm * (2 ^ (idx - 1))

C16_Witness ==
    /\ op = "slideRootFreq"
    /\ bpm = 1
    /\ rootFreq = 20
    /\ frequencies[1] - frequencies[0] = 1
    /\ getBeatFrequency(bpm, 7) = 64

----------------------------------------------------------------------------
(* Properties of the LFO modulation.  LFO values are in hundredths,        *)
(* volumes are compared in millionths.                                     *)

\* LFO values from -1 to 1: every tenth, and the values of the sine table
LfoValues == {10 * k : k \in -10..10} \cup {-71, 71}

\* a step of the LFO loop
LfoTickStep == op' = "lfoTick" /\ now' # now

\* C17: for a base volume and an LFO depth in [0, 1] the modulated volume an
\* LFO tick computes is in [0, 1], whatever the LFO value in [-1, 1].
C17_ModulatedVolumeInUnitRange ==
    \A idx \in Channels :
        /\ 0 <= modulatedVolumes[idx] /\ modulatedVolumes[idx] <= 1000000
        /\ \A lfo \in LfoValues :
              LET v == ModulatedVolume(volumes[idx], lfoAmounts[idx], lfo)
              IN  0 <= v /\ v <= 1000000

C17_Witness ==
    /\ op = "lfoTick"
    /\ volumes[3] = 99
    /\ lfoAmounts[3] = 100
    /\ modulatedVolumes[3] = 1000000

\* C18: the unclamped value baseVolume + lfoValue * swing / 2, with swing =
\* min(1 - baseVolume, baseVolume, 0.5) * 2 * lfoDepth, is in [0, 1] for
\* every LFO value in [-1, 1], and the clamped value the tick computes is
\* that value.
C18_ClampChangesNothing ==
    \A idx \in Channels : \A lfo \in LfoValues :
        LET b == volumes[idx]
            least == IF 100 - b < b THEN 100 - b ELSE b
            swing == (IF least < 50 THEN least ELSE 50) * 2 * lfoAmounts[idx]
            unclamped == b * 10000 + (lfo * swing) \div 2
        IN  /\ 0 <= unclamped /\ unclamped <= 1000000
            /\ ModulatedVolume(b, lfoAmounts[idx], lfo) = unclamped

C18_Witness ==
    /\ op = "lfoTick"
    /\ volumes[3] = 100
    /\ lfoAmounts[3] = 100
    /\ lfoValueAt(now - lfoStartTime, lfoRates[3]) = 100
    /\ modulatedVolumes[3] = 1000000

\* C19: a channel whose LFO depth is 0 gets its base volume as modulated
\* volume on every tick, whatever the elapsed time and the LFO rate.
C19_ZeroDepthBypasses ==
    [][LfoTickStep =>
          \A idx \in Channels :
              lfoAmounts[idx] = 0 =>
                  modulatedVolumes'[idx] = volumes[idx] * 10000]_vars

C19_Witness ==
    /\ op = "lfoTick"
    /\ lfoAmounts[3] = 0
    /\ volumes[3] = 25
    /\ lfoRates[3] = 1500
    /\ lfoValueAt(now - lfoStartTime, lfoRates[3]) = -100
    /\ modulatedVolumes[3] = 250000

\* C20: the modulated volume at LFO value +1 lies as far above the base
\* volume as the modulated volume at LFO value -1 lies below it.
C20_SwingIsSymmetric ==
    \A idx \in Channels :
        LET base == volumes[idx] * 10000
            up == ModulatedVolume(volumes[idx], lfoAmounts[idx], 100)
            down == ModulatedVolume(volumes[idx], lfoAmounts[idx], -100)
        IN  /\ down <= base /\ base <= up
            /\ up - base = base - down

C20_Witness ==
    /\ op = "lfoTick"
    /\ volumes[0] = 75
    /\ lfoAmounts[0] = 100
    /\ lfoValueAt(now - lfoStartTime, lfoRates[0]) = 100
    /\ modulatedVolumes[0] = 1000000

----------------------------------------------------------------------------
(* Properties of the teardown *)

\* C23: once the session is torn down no frame of the LFO loop or of the
\* oscilloscope loop is pending, and no tick of either loop runs: nothing a
\* tick writes changes any more.
C23_NoTickAfterTeardown ==
    [][/\ (~mounted' =>
             /\ ~lfoFrameLive' /\ lfoOrphans' = 0
             /\ ~drawFrameLive' /\ drawOrphans' = 0)
       /\ (~mounted =>
             UNCHANGED <<now, data, trace, modulatedVolumes, gains,
                         masterVolume>>)]_vars

C23_Witness ==
    /\ ~mounted
    /\ op = "unmount"
    /\ isPlaying
    /\ now > 0
    /\ trace.kind = "wave"

\* C30: the teardown disposes every oscillator, every channel gain, the
\* master gain and the analyser, and no tick uses one of them afterwards.
C30_NodesDisposedAndUnused ==
    ~mounted =>
        /\ disposed = {"oscillators", "gains", "masterGain", "analyser"}
        /\ disposedUses = {}

C30_Witness ==
    /\ ~mounted
    /\ op = "unmount"
    /\ ~isPlaying
    /\ "analyser" \in disposed
    /\ lfoStartTime < now

----------------------------------------------------------------------------
(* Properties of the audio start *)

\* C28: isPlaying is true only if audioReady is true, however the calls of
\* initAudio and togglePlay and the ends of their waits interleave.
C28_PlayingOnlyWhenReady == isPlaying => audioReady

C28_Witness ==
    /\ isPlaying
    /\ audioReady
    /\ op = "togglePlay"
    /\ pendingInits > 0
    /\ pendingToggles # <<>>

----------------------------------------------------------------------------
(* Properties of the oscilloscope *)

\* C24: while the transport is not playing the canvas shows the flat line
\* at half height, and no frame of the oscilloscope loop is pending that
\* would redraw it from analyser data.
C24_FlatLineWhileStopped ==
    ~isPlaying =>
        /\ trace = [kind |-> "flat", clipping |-> FALSE,
                    ys |-> <<500000, 500000>>]
        /\ ~drawFrameLive
        /\ drawOrphans = 0

C24_Witness ==
    /\ ~isPlaying
    /\ audioReady
    /\ op = "togglePlay"
    /\ ExceedsThreshold(data)
    /\ trace.kind = "flat"

\* the count n is min(floor(len / scale), len), for a scale in tenths
IsDecimatedCount(n, len, scale) ==
    /\ n <= len
    /\ n * scale <= len * 10
    /\ n < len => (n + 1) * scale > len * 10

\* C25: for a frame of length L and a time scale the displayed sample count
\* is min(floor(L / timeScale), L), never more than L; for L = 2048 it is
\* 1024 at time scale 2.0 and 2048 at time scale 0.5.  Stated for the
\* count of the trace on the canvas (time scale 3.0) and for every slider
\* time scale with the frame length of the state and with 2048.
C25_DisplayedSampleCount ==
    /\ trace.kind = "wave" => IsDecimatedCount(Len(trace.ys), Len(data), 30)
    /\ \A len \in {Len(data), 2048} : \A scale \in SliderTimeScales \cup {30} :
          IsDecimatedCount(samplesToShow(len, scale), len, scale)
    /\ samplesToShow(2048, 20) = 1024
    /\ samplesToShow(2048, 5) = 2048

C25_Witness ==
    /\ op = "draw"
    /\ isPlaying
    /\ trace.kind = "wave"
    /\ trace.ys # <<>>
    /\ Len(trace.ys) = samplesToShow(Len(data), 30)
    /\ samplesToShow(2048, 30) = 682

\* C26: in one run of draw the clipping mark of the trace, the guard's
\* decision and the drawn samples all come from the one frame read in that
\* run: the trace is marked clipping exactly when a sample of the frame has
\* magnitude above 0.95, the guard changes masterVolume only then, and the
\* trace runs through the first samples of that frame.
C26_OneFramePerTick ==
    [][DrawStep =>
          /\ trace'.clipping = ExceedsThreshold(data')
          /\ masterVolume' # masterVolume => ExceedsThreshold(data')
          /\ \A i \in DOMAIN trace'.ys :
                trace'.ys[i] = (data'[i] + 1000000) \div 2]_vars

C26_Witness ==
    /\ op = "draw"
    /\ trace.kind = "wave"
    /\ trace.clipping
    /\ trace.ys # <<>>
    /\ ExceedsThreshold(data)
    /\ masterVolume < drawMasterVolume

----------------------------------------------------------------------------
(* The reset indicator *)

\* C27: while a phase reset holds the master gain at 0, its restore still
\* pending, the reset indicator is on, also when a second reset comes
\* shortly before the indicator timer of the first is due.
C27_IndicatorCoversMuteWindow ==
    (mounted /\ pendingRestores # <<>> /\ masterGain = 0) => resetFlash

----------------------------------------------------------------------------
(* Properties of the mixer *)

\* C21: at every tick of the LFO loop the gain written to a channel is the
\* channel's modulated volume of that tick when the transport is playing
\* and the channel is not muted, and 0 otherwise.
C21_GainWrittenByTick ==
    [][LfoTickStep =>
          \A idx \in Channels :
              gains'[idx] = IF isPlaying /\ ~muted[idx]
                            THEN modulatedVolumes'[idx]
                            ELSE 0]_vars

C21_Witness ==
    /\ op = "lfoTick"
    /\ isPlaying
    /\ muted[3]
    /\ gains[3] = 0
    /\ modulatedVolumes[3] > 0
    /\ modulatedVolumes[3] # volumes[3] * 10000
    /\ ~muted[0]
    /\ gains[0] = modulatedVolumes[0]
    /\ gains[0] > 0

\* C22: only the phase reset changes the origin of the modulation clock:
\* play, stop, a channel mute, the master mute and a change of a volume or
\* of an LFO parameter leave it as it is.
C22_ClockOriginOnlyByReset ==
    [][lfoStartTime' # lfoStartTime =>
          /\ op' = "reset"
          /\ resets' = resets + 1
          /\ lfoStartTime' = now]_vars

C22_Witness ==
    /\ resets = 2
    /\ lfoStartTime = 10
    /\ now = 10
    /\ op = "toggleMute"
    /\ muted[3]
    /\ masterMuted
    /\ audioReady
    /\ ~isPlaying
    /\ volumes[3] = 25
    /\ lfoRates[3] = 1500

\* C29: whatever the faders, the knobs, the randomize buttons and the
\* clipping guard have done, masterVolume, every channel volume and every
\* LFO amount are in [0, 1] and every LFO rate is in [0.002, 5] Hz; one
\* more correction of the guard keeps masterVolume there.
C29_MixInRange ==
    /\ masterVolume \in 0..One
    /\ GuardUpdater(masterVolume) \in 0..One
    /\ \A idx \in Channels :
          /\ volumes[idx] \in 0..100
          /\ lfoAmounts[idx] \in 0..100
          /\ lfoRates[idx] \in MinLfoRate..MaxLfoRate

C29_Witness ==
    /\ op = "togglePlay"
    /\ isPlaying
    /\ drawMasterVolume = One
    /\ masterVolume = 950000
    /\ volumes[3] = 100
    /\ lfoRates[3] = MaxLfoRate

----------------------------------------------------------------------------
(* Properties of the modulation at the ends of a fader *)

\* LFO depths from 0 to 1
LfoDepths == {0, 1, 25, 50, 75, 99, 100}

\* C37: for a channel whose base volume is exactly 0 or exactly 1 the swing
\* is 0 and the modulated volume is the base volume, for every LFO depth
\* and every LFO value; so is the modulated volume every tick stores.
C37_NoSwingAtEnds ==
    [][LfoTickStep =>
          \A idx \in Channels :
              (volumes[idx] = 0 \/ volumes[idx] = 100) =>
                  /\ modulatedVolumes'[idx] = volumes[idx] * 10000
                  /\ \A depth \in LfoDepths :
                        /\ modulationRange(volumes[idx], depth) = 0
                        /\ \A lfo \in LfoValues :
                              ModulatedVolume(volumes[idx], depth, lfo)
                                  = volumes[idx] * 10000]_vars

C37_Witness ==
    /\ op = "lfoTick"
    /\ volumes[3] = 0
    /\ lfoAmounts[3] = 100
    /\ lfoValueAt(now - lfoStartTime, lfoRates[3]) = 100
    /\ modulatedVolumes[3] = 0

----------------------------------------------------------------------------
(* Properties of the LFO loop *)

\* animation frames of the LFO loop that are requested and have neither
\* fired nor been cancelled
PendingLfoFrames == (IF lfoFrameLive THEN 1 ELSE 0) + lfoOrphans

\* C36: while the session is mounted at most one frame of the LFO loop is
\* pending, however often a change of a parameter, of a mute or of the
\* transport restarts the loop.
C36_OneLfoLoop == mounted => PendingLfoFrames <= 1

C36_Witness ==
    /\ mounted
    /\ op = "lfoTick"
    /\ edits = 2
    /\ muted[3]
    /\ audioReady
    /\ ~isPlaying
    /\ PendingLfoFrames = 1

----------------------------------------------------------------------------
(* Properties of the transport *)

\* C35: every togglePlay call that completes flips isPlaying, so that after
\* n completed calls from stopped isPlaying is true exactly for odd n, also
\* when a call starts while an earlier one still waits for the audio start.
C35_EachToggleFlips ==
    [][op' = "togglePlay" => isPlaying' = ~isPlaying]_vars

----------------------------------------------------------------------------
(* Properties of the tap estimate *)

\* C34: a tap that writes bpm computes it only from intervals between
\* consecutive taps of at most 2000 ms, so that no tap sets bpm below 30.
C34_EstimateFromShortIntervals ==
    [][(op' = "tap" /\ Len(tapTimes) >= 1) =>
         LET taps == KeepLastTaps(Append(tapTimes, now'))
         IN  /\ \A i \in 2..Len(taps) : taps[i] - taps[i - 1] <= ResetGapMs
             /\ bpm' >= 30]_vars

----------------------------------------------------------------------------
(* Properties of the master gain *)

\* C33: once no restore of a phase reset is pending any more, the master
\* gain is the current effective master volume (0 while the master is muted,
\* masterVolume otherwise), also when masterVolume or masterMuted changed
\* between a reset and its restore.
C33_GainSettlesAfterRestores ==
    (mounted /\ resets > 0 /\ pendingRestores = <<>>) =>
        masterGain = (IF masterMuted THEN 0 ELSE masterVolume)

\* C32: every step that changes masterVolume or masterMuted, made by the
\* user or by the clipping guard, sets the target of the master gain to 0
\* when the master is then muted and to the new masterVolume otherwise.
C32_GainFollowsMasterState ==
    [][(masterVolume' # masterVolume \/ masterMuted' # masterMuted) =>
          masterGain' = (IF masterMuted' THEN 0 ELSE masterVolume')]_vars

\* the guard has lowered masterVolume from 0.3 to 0.285 and the user has
\* just taken the master mute off: the gain heads to 0.285
C32_Witness ==
    /\ op = "toggleMasterMute"
    /\ ~masterMuted
    /\ masterVolume = 285000
    /\ masterGain = 285000

----------------------------------------------------------------------------
(* Properties of the channel gains *)

\* C31: once the transport is stopped or channel idx is muted, the next tick
\* of the LFO loop writes 0 to the gain of the channel, the gain then stays 0
\* at every step until the transport is playing and the channel is unmuted,
\* and no frame requested under earlier parameters is left to run.
C31_SilencedStaysSilent ==
    [][\A idx \in Channels :
          /\ (op' = "lfoTick" /\ (~isPlaying \/ muted[idx])) =>
                 gains'[idx] = 0
          /\ (gains[idx] = 0 /\ (~isPlaying' \/ muted'[idx])) =>
                 gains'[idx] = 0
          /\ lfoOrphans' = 0]_vars

\* channel 3 was muted while it sounded and a tick has silenced it, channel 0
\* goes on sounding and one frame of the loop is pending
C31_Witness ==
    /\ op = "lfoTick"
    /\ isPlaying
    /\ muted[3]
    /\ gains[3] = 0
    /\ modulatedVolumes[3] > 0
    /\ gains[0] > 0
    /\ lfoFrameLive
    /\ lfoOrphans = 0

====
